---- MODULE Spec2Model ----
(***************************************************************************)
(* Model of the search engine of src/src/subProject1.py (index builders    *)
(* spimi and naive) and src/src/subProject2.py (boolean retrieval,         *)
(* ranking, interactive query loop).                                       *)
(*                                                                         *)
(* Encoding of Python values:                                              *)
(*   - a token is a natural number; the order of the numbers stands for    *)
(*     the lexical order of the token strings;                             *)
(*   - an optional value (None or x) is the sequence <<>> or <<x>>;        *)
(*   - a dict is a function on the set of its keys;                        *)
(*   - a posting (docID, tf) and a scored pair (docID, score) are           *)
(*     2-tuples.                                                           *)
(***************************************************************************)
EXTENDS Integers, Sequences, FiniteSets, TLC

\* ------------------------------------------------------------------ bounds
MaxDocs == 3
MaxTokens == 4
NumTerms == 2
MaxBudget == 5
MaxDocID == 2
MaxLists == 3
MaxQueryDocs == 3
MaxQueryTokens == 3
MaxQueryLen == 2

\* ------------------------------------------------------- Python primitives
None == <<>>
Some(x) == <<x>>
IsNone(o) == o = <<>>
Val(o) == o[1]

Min(a, b) == IF a <= b THEN a ELSE b

Range(s) == {s[i] : i \in 1..Len(s)}

RECURSIVE SumSeq(_)
SumSeq(s) == IF s = <<>> THEN 0 ELSE s[1] + SumSeq(Tail(s))

RECURSIVE Flatten(_)
Flatten(ss) == IF ss = <<>> THEN <<>> ELSE ss[1] \o Flatten(Tail(ss))

\* --------------------------------------------------------------- the inputs
Terms == 1..NumTerms

RECURSIVE DocsOfLen(_)
DocsOfLen(n) ==
    IF n = 0 THEN {<<>>}
    ELSE {<<t>> \o d : t \in Terms, d \in DocsOfLen(n - 1)}

DocsUpTo(n) == UNION {DocsOfLen(k) : k \in 0..n}

\* the token corpora of k documents holding at most t tokens in all
RECURSIVE CorporaOf(_, _)
CorporaOf(k, t) ==
    IF k = 0 THEN {<<>>}
    ELSE UNION {{<<d>> \o c : c \in CorporaOf(k - 1, t - Len(d))} : d \in DocsUpTo(t)}

Corpora == UNION {CorporaOf(k, MaxTokens) : k \in 0..MaxDocs}

\* the vocabulary of the collections and queries of the query loop: two
\* terms, so that a query can repeat a term, name two terms, or miss the
\* term a document holds
QueryVocabulary == {1, 2}

RECURSIVE QueryDocsOfLen(_)
QueryDocsOfLen(n) ==
    IF n = 0 THEN {<<>>}
    ELSE {<<t>> \o d : t \in QueryVocabulary, d \in QueryDocsOfLen(n - 1)}

RECURSIVE QueryCorporaOf(_, _)
QueryCorporaOf(k, t) ==
    IF k = 0 THEN {<<>>}
    ELSE UNION {{<<d>> \o c : c \in QueryCorporaOf(k - 1, t - Len(d))} :
                   d \in UNION {QueryDocsOfLen(n) : n \in 0..t}}

\* the collections the query loop runs over
QueryCorpora == UNION {QueryCorporaOf(k, MaxQueryTokens) : k \in 0..MaxQueryDocs}

\* tokenizer(query): the token sequences a query line can give
Queries == UNION {QueryDocsOfLen(n) : n \in 0..MaxQueryLen}

\* testCount: None, or a count of occurrences
Budgets == {None} \cup {Some(n) : n \in 0..MaxBudget}

TotalTokens(tokensList) == Len(Flatten(tokensList))

\* ------------------------------------------------------------------- spimi
\* Python's truth value of `testCount`: None and 0 are false
Truthy(testCount) == ~IsNone(testCount) /\ Val(testCount) # 0

\* a builder that stops one occurrence late
spimiReachedLate(testCount, pairCount) ==
    Truthy(testCount) /\ pairCount > Val(testCount)

\* `testCount and pairCount >= testCount`
spimiReached(testCount, pairCount) ==
    Truthy(testCount) /\ pairCount >= Val(testCount)

\* a builder that never looks at the last posting
spimiUpdateAppend(index, token, docID) ==
    IF token \in DOMAIN index
    THEN [index EXCEPT ![token] = Append(index[token], <<docID, 1>>)]
    ELSE [t \in DOMAIN index \cup {token} |->
             IF t = token THEN <<<<docID, 1>>>> ELSE index[t]]

\* a builder that counts every repeat on the last posting, whatever its
\* document
spimiUpdateMerge(index, token, docID) ==
    IF token \in DOMAIN index
    THEN LET postingsList == index[token]
             last == postingsList[Len(postingsList)]
         IN  [index EXCEPT ![token] =
                 [postingsList EXCEPT ![Len(postingsList)] = <<last[1], last[2] + 1>>]]
    ELSE [t \in DOMAIN index \cup {token} |->
             IF t = token THEN <<<<docID, 1>>>> ELSE index[t]]

\* lines 93-100: update or add the token in the index
spimiUpdate(index, token, docID) ==
    IF token \in DOMAIN index
    THEN LET postingsList == index[token]
             last == postingsList[Len(postingsList)]
         IN  IF last[1] = docID
             THEN [index EXCEPT ![token] =
                      [postingsList EXCEPT ![Len(postingsList)] = <<docID, last[2] + 1>>]]
             ELSE [index EXCEPT ![token] = Append(postingsList, <<docID, 1>>)]
    ELSE [t \in DOMAIN index \cup {token} |->
             IF t = token THEN <<<<docID, 1>>>> ELSE index[t]]

\* the two nested loops of lines 89-106: di is the position of the document
\* in tokensList, ti the position of the token in it. Returns the loop's
\* final index, pairCount and docID.
RECURSIVE spimiLoop(_, _, _, _, _, _, _)
spimiLoop(tokensList, testCount, di, ti, docID, pairCount, index) ==
    IF di > Len(tokensList)
    THEN [index |-> index, pairCount |-> pairCount, docID |-> docID]
    ELSE IF ti > Len(tokensList[di])
         THEN \* the inner loop is exhausted: docID += 1, then the outer test
              IF spimiReached(testCount, pairCount)
              THEN [index |-> index, pairCount |-> pairCount, docID |-> docID + 1]
              ELSE spimiLoop(tokensList, testCount, di + 1, 1, docID + 1, pairCount, index)
         ELSE LET index2 == spimiUpdate(index, tokensList[di][ti], docID)
                  pairCount2 == pairCount + 1
              IN  IF spimiReached(testCount, pairCount2)
                  THEN \* break of line 103, docID += 1, break of line 106
                       [index |-> index2, pairCount |-> pairCount2, docID |-> docID + 1]
                  ELSE spimiLoop(tokensList, testCount, di, ti + 1, docID, pairCount2, index2)

EmptyIndex == [t \in {} |-> <<>>]

spimiRun(tokensList, testCount) ==
    spimiLoop(tokensList, testCount, 1, 1, 1, 0, EmptyIndex)

\* the index spimi returns (line 108 sorts the keys: a function on the key
\* set carries no order, its keys are read in ascending order)
spimi(tokensList, testCount) == spimiRun(tokensList, testCount).index

\* ------------------------------------------------------------------- naive
\* a baseline that stops one pair late
naiveReachedLate(testCount, F) == Truthy(testCount) /\ Len(F) = Val(testCount) + 1

\* `testCount and len(F) == testCount`
naiveReached(testCount, F) == Truthy(testCount) /\ Len(F) = Val(testCount)

\* lines 151-158: the (term, docID) pairs collected
RECURSIVE naiveLoop(_, _, _, _, _, _)
naiveLoop(tokensList, testCount, di, ti, docID, F) ==
    IF di > Len(tokensList)
    THEN F
    ELSE IF ti > Len(tokensList[di])
         THEN IF naiveReached(testCount, F)
              THEN F
              ELSE naiveLoop(tokensList, testCount, di + 1, 1, docID + 1, F)
         ELSE LET F2 == Append(F, <<tokensList[di][ti], docID>>)
              IN  IF naiveReached(testCount, F2)
                  THEN F2
                  ELSE naiveLoop(tokensList, testCount, di, ti + 1, docID, F2)

naivePairs(tokensList, testCount) == naiveLoop(tokensList, testCount, 1, 1, 1, <<>>)

\* tuple comparison of (term, docID) pairs
PairLess(p, q) == p[1] < q[1] \/ (p[1] = q[1] /\ p[2] < q[2])

\* insert p into the sorted sequence s, after the elements not greater
RECURSIVE InsertPair(_, _)
InsertPair(s, p) ==
    IF s = <<>> THEN <<p>>
    ELSE IF PairLess(p, s[1]) THEN <<p>> \o s
    ELSE <<s[1]>> \o InsertPair(Tail(s), p)

\* F.sort()
RECURSIVE SortPairs(_)
SortPairs(F) ==
    IF F = <<>> THEN <<>>
    ELSE InsertPair(SortPairs(SubSeq(F, 1, Len(F) - 1)), F[Len(F)])

\* list(dict.fromkeys(F)): the first occurrence of each element, in order
RECURSIVE Dedup(_)
Dedup(s) ==
    IF s = <<>> THEN <<>>
    ELSE LET front == Dedup(SubSeq(s, 1, Len(s) - 1))
             x == s[Len(s)]
         IN  IF x \in Range(front) THEN front ELSE Append(front, x)

\* lines 165-171: fold the pairs into postings lists
RECURSIVE naiveFold(_, _)
naiveFold(F, index) ==
    IF F = <<>> THEN index
    ELSE LET term == F[1][1]
             docID == F[1][2]
             index2 ==
                 IF term \in DOMAIN index
                 THEN IF index[term][Len(index[term])] # docID
                      THEN [index EXCEPT ![term] = Append(index[term], docID)]
                      ELSE index
                 ELSE [t \in DOMAIN index \cup {term} |->
                          IF t = term THEN <<docID>> ELSE index[t]]
         IN  naiveFold(Tail(F), index2)

naive(tokensList, testCount) ==
    naiveFold(Dedup(SortPairs(naivePairs(tokensList, testCount))), EmptyIndex)

\* ------------------------------------------------- boolean combination
\* line 187: drop the frequencies, keep None
convertPostingsLists(postingsLists) ==
    [i \in 1..Len(postingsLists) |->
        IF IsNone(postingsLists[i]) THEN None
        ELSE Some([k \in 1..Len(Val(postingsLists[i])) |-> Val(postingsLists[i])[k][1]])]

\* a merge that appends in the wrong branch
RECURSIVE intersectWrongBranch(_, _, _, _, _)
intersectWrongBranch(pList1, pList2, i, j, result) ==
    IF i <= Len(pList1) /\ j <= Len(pList2)
    THEN IF pList1[i] = pList2[j]
         THEN intersectWrongBranch(pList1, pList2, i + 1, j + 1, Append(result, pList1[i]))
         ELSE IF pList1[i] < pList2[j]
              THEN intersectWrongBranch(pList1, pList2, i + 1, j, Append(result, pList1[i]))
              ELSE intersectWrongBranch(pList1, pList2, i, j + 1, result)
    ELSE result

\* lines 259-271: the two-pointer merge (i, j are the 0-based indexes plus 1)
RECURSIVE intersectLoop(_, _, _, _, _)
intersectLoop(pList1, pList2, i, j, result) ==
    IF i <= Len(pList1) /\ j <= Len(pList2)
    THEN IF pList1[i] = pList2[j]
         THEN intersectLoop(pList1, pList2, i + 1, j + 1, Append(result, pList1[i]))
         ELSE IF pList1[i] < pList2[j]
              THEN intersectLoop(pList1, pList2, i + 1, j, result)
              ELSE intersectLoop(pList1, pList2, i, j + 1, result)
    ELSE result

intersect(pList1, pList2) == intersectLoop(pList1, pList2, 1, 1, <<>>)

\* insert x behind the elements of s that are not longer (sorted is stable)
RECURSIVE InsertByLen(_, _)
InsertByLen(s, x) ==
    IF s = <<>> THEN <<x>>
    ELSE IF Len(x) < Len(s[1]) THEN <<x>> \o s
    ELSE <<s[1]>> \o InsertByLen(Tail(s), x)

\* sorted(postingsLists, key=len)
RECURSIVE SortByLen(_)
SortByLen(ls) ==
    IF ls = <<>> THEN <<>>
    ELSE InsertByLen(SortByLen(SubSeq(ls, 1, Len(ls) - 1)), ls[Len(ls)])

\* lines 209-213: intersect with each further list, stop when empty
RECURSIVE conjunctionLoop(_, _)
conjunctionLoop(finalPostingsList, rest) ==
    IF rest = <<>> THEN finalPostingsList
    ELSE LET next == intersect(finalPostingsList, rest[1])
         IN  IF next = <<>> THEN next ELSE conjunctionLoop(next, Tail(rest))

\* an AND that skips the terms the index does not hold
conjunctionLenient(postingsLists) ==
    LET present == {i \in 1..Len(postingsLists) : ~IsNone(postingsLists[i])}
        RECURSIVE Keep(_)
        Keep(i) ==
            IF i > Len(postingsLists) THEN <<>>
            ELSE IF i \in present THEN <<Val(postingsLists[i])>> \o Keep(i + 1)
            ELSE Keep(i + 1)
    IN  IF present = {} THEN None
        ELSE LET sortedPostingsLists == SortByLen(Keep(1))
             IN  Some(conjunctionLoop(sortedPostingsLists[1], Tail(sortedPostingsLists)))

\* lines 200-214, for a non-empty list of optional postings lists
conjunction(postingsLists) ==
    IF \E i \in 1..Len(postingsLists) : IsNone(postingsLists[i])
    THEN None
    ELSE LET sortedPostingsLists ==
                 SortByLen([i \in 1..Len(postingsLists) |-> Val(postingsLists[i])])
         IN  Some(conjunctionLoop(sortedPostingsLists[1], Tail(sortedPostingsLists)))

\* sorted(set(ids)): the elements of a set of numbers, ascending
RECURSIVE SortedOfSet(_)
SortedOfSet(S) ==
    IF S = {} THEN <<>>
    ELSE LET m == CHOOSE x \in S : \A y \in S : x <= y
         IN  <<m>> \o SortedOfSet(S \ {m})

RECURSIVE InsertInt(_, _)
InsertInt(s, x) ==
    IF s = <<>> THEN <<x>>
    ELSE IF x < s[1] THEN <<x>> \o s
    ELSE <<s[1]>> \o InsertInt(Tail(s), x)

\* sorted(ids): ascending, duplicates kept
RECURSIVE SortInts(_)
SortInts(s) ==
    IF s = <<>> THEN <<>>
    ELSE InsertInt(SortInts(SubSeq(s, 1, Len(s) - 1)), s[Len(s)])

\* lines 284-286: docFreq, a dict in insertion order, as (docID, count) pairs
RECURSIVE docFreqOf(_, _)
docFreqOf(postingsList, docFreq) ==
    IF postingsList = <<>> THEN docFreq
    ELSE LET docID == postingsList[1]
             at == {k \in 1..Len(docFreq) : docFreq[k][1] = docID}
         IN  docFreqOf(Tail(postingsList),
                 IF at = {}
                 THEN Append(docFreq, <<docID, 1>>)
                 ELSE LET k == CHOOSE k \in at : TRUE
                      IN  [docFreq EXCEPT ![k] = <<docID, docFreq[k][2] + 1>>])

\* insert pair x behind the pairs of s whose second component is not smaller
RECURSIVE InsertByScoreDesc(_, _)
InsertByScoreDesc(s, x) ==
    IF s = <<>> THEN <<x>>
    ELSE IF x[2] > s[1][2] THEN <<x>> \o s
    ELSE <<s[1]>> \o InsertByScoreDesc(Tail(s), x)

\* sorted(items, key=lambda item: item[1], reverse=True): stable
RECURSIVE SortByScoreDesc(_)
SortByScoreDesc(items) ==
    IF items = <<>> THEN <<>>
    ELSE InsertByScoreDesc(SortByScoreDesc(SubSeq(items, 1, Len(items) - 1)),
                           items[Len(items)])

\* a ranking that counts each document once
queryTermRankOnce(postingsList) ==
    SortByScoreDesc(docFreqOf(SortedOfSet(Range(postingsList)), <<>>))

queryTermRank(postingsList) == SortByScoreDesc(docFreqOf(postingsList, <<>>))

\* the postings lists that are not None, in order
RECURSIVE validOf(_)
validOf(postingsLists) ==
    IF postingsLists = <<>> THEN <<>>
    ELSE IF IsNone(postingsLists[1]) THEN validOf(Tail(postingsLists))
    ELSE <<Val(postingsLists[1])>> \o validOf(Tail(postingsLists))

\* a union that keeps the chained list as it is
disjunctionRaw(postingsLists, queryTermRanking) ==
    LET validPostingsLists == validOf(postingsLists)
    IN  IF validPostingsLists = <<>> THEN None
        ELSE LET unionPostings == Flatten(validPostingsLists)
             IN  IF ~queryTermRanking
                 THEN Some(unionPostings)
                 ELSE Some(queryTermRank(SortInts(unionPostings)))

disjunction(postingsLists, queryTermRanking) ==
    LET validPostingsLists == validOf(postingsLists)
    IN  IF validPostingsLists = <<>> THEN None
        ELSE LET unionPostings == Flatten(validPostingsLists)
             IN  IF ~queryTermRanking
                 THEN Some(SortedOfSet(Range(unionPostings)))
                 ELSE Some(queryTermRank(SortInts(unionPostings)))

\* strictly increasing lists of DocumentIDs 1..n, as an index holds them
IDLists(n) == {SortedOfSet(S) : S \in SUBSET (1..n)}

RECURSIVE ListsOfLen(_, _)
ListsOfLen(k, S) ==
    IF k = 0 THEN {<<>>}
    ELSE {<<x>> \o l : x \in S, l \in ListsOfLen(k - 1, S)}

\* the arguments of conjunction and disjunction: one optional list per term
PostingsListsArgs ==
    UNION {ListsOfLen(k, {None} \cup {Some(l) : l \in IDLists(MaxDocID)}) : k \in 1..MaxLists}

\* -------------------------------------------------------------------- bm25
\* 1000 * ln(n) for n = 1..8, rounded: math.log on the ratios the bounds allow
LnMilli == <<0, 693, 1099, 1386, 1609, 1792, 1946, 2079>>

\* line 155: idf = log(N / df) if df != 0 else 0, in thousandths
idfMilli(N, df) == IF df # 0 THEN LnMilli[N] - LnMilli[df] ELSE 0

\* line 161, in thousandths, for k1 = k1t / 10, b = bt / 10 and
\* L_avg = L_total / N:
\*   idf * (tf * (k1 + 1)) / (k1 * ((1 - b) + b * (L_d / L_avg)) + tf)
scoreMilli(idf, tf, L_d, N, L_total, k1t, bt) ==
    (idf * tf * (k1t + 10) * 10 * L_total)
        \div (k1t * ((10 - bt) * L_total + bt * L_d * N) + 100 * L_total * tf)

\* index.get(term, [])
getOrEmpty(index, term) == IF term \in DOMAIN index THEN index[term] ELSE <<>>

\* index.get(term)
get(index, term) == IF term \in DOMAIN index THEN Some(index[term]) ELSE None

\* lines 163-165: rankedResults[docID] += score, a dict in insertion order
addScore(rankedResults, docID, score) ==
    LET at == {k \in 1..Len(rankedResults) : rankedResults[k][1] = docID}
    IN  IF at = {}
        THEN Append(rankedResults, <<docID, score>>)
        ELSE LET k == CHOOSE k \in at : TRUE
             IN  [rankedResults EXCEPT ![k] = <<docID, rankedResults[k][2] + score>>]

\* line 159: len(collection[int(docID)]): the list is 0-based, so this is the
\* document after the one with DocumentID docID; None stands for IndexError
docLength(collection, docID) ==
    IF docID + 1 <= Len(collection) THEN Some(Len(collection[docID + 1])) ELSE None

\* a scorer that starts every document of the collection at 0.0
rankedResultsInitAll(collection) == [d \in 1..Len(collection) |-> <<d, 0>>]

\* line 146: rankedResults = {}
rankedResultsInit(collection) == <<>>

\* lines 152-165: the loop over the query terms (ti) and over the postings of
\* each (pi). The result is None for IndexError, else Some(rankedResults).
RECURSIVE bm25Loop(_, _, _, _, _, _, _, _, _)
bm25Loop(queryTerms, candidates, index, collection, k1t, bt, ti, pi, rankedResults) ==
    IF ti > Len(queryTerms) THEN Some(rankedResults)
    ELSE LET postingsList == getOrEmpty(index, queryTerms[ti])
         IN  IF pi > Len(postingsList)
             THEN bm25Loop(queryTerms, candidates, index, collection, k1t, bt,
                           ti + 1, 1, rankedResults)
             ELSE LET docID == postingsList[pi][1]
                      tf == postingsList[pi][2]
                      N == Len(collection)
                      df == Len(postingsList)
                  IN  IF docID # 0 /\ docID \in candidates
                      THEN LET L_d == docLength(collection, docID)
                           IN  IF IsNone(L_d) THEN None
                               ELSE bm25Loop(queryTerms, candidates, index, collection,
                                        k1t, bt, ti, pi + 1,
                                        addScore(rankedResults, docID,
                                            scoreMilli(idfMilli(N, df), tf, Val(L_d), N,
                                                       TotalTokens(collection), k1t, bt)))
                      ELSE bm25Loop(queryTerms, candidates, index, collection, k1t, bt,
                                    ti, pi + 1, rankedResults)

\* bm25 for a result that is a list: [error, value], value None or the
\* ranked list. candidates are the elements of result a DocumentID can equal.
bm25(queryTerms, candidates, index, collection, k1t, bt) ==
    LET looped == bm25Loop(queryTerms, candidates, index, collection, k1t, bt, 1, 1,
                           rankedResultsInit(collection))
    IN  IF IsNone(looped) THEN [error |-> TRUE, value |-> None]
        ELSE IF \A k \in 1..Len(Val(looped)) : Val(looped)[k][2] = 0
             THEN [error |-> FALSE, value |-> None]
             ELSE [error |-> FALSE, value |-> Some(SortByScoreDesc(Val(looped)))]

\* --------------------------------------------------------------- queryTest
\* what queryTest prints for one index: the list, tagged with the type of its
\* elements ("ids": DocumentIDs, "postings": (docID, tf), "ranked":
\* (docID, matchCount), "scored": (docID, score)), or that nothing was found
NotFound == [found |-> FALSE, kind |-> "none", items |-> <<>>]
Crashed == [found |-> FALSE, kind |-> "IndexError", items |-> <<>>]

\* lines 53-56, 84-87: `if result:` prints the list, else "no results"
Printed(result, kind) ==
    IF IsNone(result) \/ Val(result) = <<>> THEN NotFound
    ELSE [found |-> TRUE, kind |-> kind, items |-> Val(result)]

\* Python's truth value of an index argument: None and {} are false
IndexGiven(index) == ~IsNone(index) /\ DOMAIN Val(index) # {}

\* lines 41-50: the postings of each term, then the boolean operation
combine(postingsLists, operation, ranking) ==
    IF operation = Some("AND") THEN conjunction(postingsLists)
    ELSE IF operation = Some("OR") THEN disjunction(postingsLists, ranking)
    ELSE None

\* lines 34-56: None when the block is skipped, else Some(what it prints)
queryTestNaive(queryTerms, naiveIndex, operation, ranking) ==
    IF ~IndexGiven(naiveIndex) THEN None
    ELSE IF Len(queryTerms) = 1
         THEN Some(Printed(get(Val(naiveIndex), queryTerms[1]), "ids"))
         ELSE LET postingsLists ==
                      [i \in 1..Len(queryTerms) |-> get(Val(naiveIndex), queryTerms[i])]
              IN  Some(Printed(combine(postingsLists, operation, ranking),
                               IF operation = Some("OR") /\ ranking THEN "ranked" ELSE "ids"))

\* lines 62-63: the postings of the one term, as the index holds them
spimiSingle(spimiIndex, term) == Printed(get(spimiIndex, term), "postings")

\* lines 59-87: None when the block is skipped, else Some(what it prints);
\* k1t, bt are the answers getK1B returns when it is called
queryTestSpimi(queryTerms, spimiIndex, collection, operation, ranking, bm25Ranking, k1t, bt) ==
    IF ~IndexGiven(spimiIndex) THEN None
    ELSE IF Len(queryTerms) = 1
         THEN Some(spimiSingle(Val(spimiIndex), queryTerms[1]))
         ELSE LET postingsLists ==
                      [i \in 1..Len(queryTerms) |-> get(Val(spimiIndex), queryTerms[i])]
                  normalized == convertPostingsLists(postingsLists)
                  result == combine(normalized, operation, ranking)
                  kind == IF operation = Some("OR") /\ ranking THEN "ranked" ELSE "ids"
              IN  IF bm25Ranking /\ ~IsNone(result) /\ Val(result) # <<>>
                  THEN LET scored ==
                               bm25(queryTerms,
                                    IF kind = "ids" THEN Range(Val(result)) ELSE {},
                                    Val(spimiIndex), collection, k1t, bt)
                       IN  IF scored.error THEN Some(Crashed)
                           ELSE Some(Printed(scored.value, "scored"))
                  ELSE Some(Printed(result, kind))

\* getK1B: the accepted answers, k1 >= 0 and 0 <= b <= 1, in tenths
K1Tenths == {0, 12}
BTenths == {0, 5, 10}

\* ---------------------------------------------------------------- the state
VARIABLES
    tokensList,       \* the token corpus (getTokens' result)
    testCount,        \* the occurrence budget handed to the builders
    spimiOut,         \* None, or spimi's result: the index and the loop's pairCount
    naiveOut,         \* None, or naive's result: the index and the pairs F collected
    postingsLists,    \* the argument of conjunction and disjunction
    queryTermRanking, \* the flag handed to disjunction
    conjOut,          \* None, or Some(what conjunction returned)
    disjOut,          \* None, or Some(what disjunction returned)
    pc,               \* where queryManager stands
    query,            \* tokenizer(query) of the query line entered
    operation,        \* None, "AND" or "OR"
    selSpimi,         \* queryManager's spimi: None or the index selected
    selNaive,         \* queryManager's naive: None or the index selected
    bm25Ranking,      \* the flag getRanking returned
    notice,           \* the last message a prompt printed for this query
    naiveResult,      \* None, or what queryTest printed for the naive index
    spimiResult       \* None, or what queryTest printed for the spimi index

buildVars == <<tokensList, testCount, spimiOut, naiveOut>>
boolRest == <<postingsLists, conjOut, disjOut>>
boolVars == <<postingsLists, queryTermRanking, conjOut, disjOut>>
queryVars == <<pc, query, operation, selSpimi, selNaive, bm25Ranking, notice,
               naiveResult, spimiResult>>
vars == <<buildVars, boolVars, queryVars>>

\* the parts of the state a specification does not use
BuildIdle == tokensList = <<>> /\ testCount = None /\ spimiOut = None /\ naiveOut = None
BoolRestIdle == postingsLists = <<>> /\ conjOut = None /\ disjOut = None
BoolIdle == BoolRestIdle /\ queryTermRanking = FALSE
QueryIdle ==
    /\ pc = "idle" /\ query = <<>> /\ operation = None
    /\ selSpimi = None /\ selNaive = None /\ bm25Ranking = FALSE
    /\ notice = "none" /\ naiveResult = None /\ spimiResult = None

\* ---------------------------------------------------------- the two builds
BuildInit ==
    /\ tokensList \in Corpora
    /\ testCount \in Budgets
    /\ spimiOut = None
    /\ naiveOut = None
    /\ BoolIdle
    /\ QueryIdle

\* subProject1.main line 221: spimi(tokenStream, testCount)
RunSpimi ==
    /\ IsNone(spimiOut)
    /\ spimiOut' = Some(spimiRun(tokensList, testCount))
    /\ UNCHANGED <<tokensList, testCount, naiveOut, boolVars, queryVars>>

\* subProject1.main line 222: naive(tokenStream, testCount)
RunNaive ==
    /\ ~IsNone(spimiOut)
    /\ IsNone(naiveOut)
    /\ naiveOut' = Some([index |-> naive(tokensList, testCount),
                         F |-> naivePairs(tokensList, testCount)])
    /\ UNCHANGED <<tokensList, testCount, spimiOut, boolVars, queryVars>>

BuildNext == RunSpimi \/ RunNaive

BuildSpec == BuildInit /\ [][BuildNext]_vars

\* -------------------------------------------------- claims on the builders
DocIDsOf(postingsList) == {postingsList[i][1] : i \in 1..Len(postingsList)}

StrictlyIncreasing(ids) == \A i \in 1..(Len(ids) - 1) : ids[i] < ids[i + 1]

PostingIDs(postingsList) == [i \in 1..Len(postingsList) |-> postingsList[i][1]]

TotalFrequency(index) ==
    SumSeq(Flatten([k \in 1..Cardinality(DOMAIN index) |->
        LET t == CHOOSE u \in DOMAIN index :
                     Cardinality({w \in DOMAIN index : w < u}) = k - 1
        IN  [i \in 1..Len(index[t]) |-> index[t][i][2]]]))

BothBuilt == ~IsNone(spimiOut) /\ ~IsNone(naiveOut)

\* C1: for every corpus (empty documents included) and every budget, spimi
\* and naive return indexes with the same terms, and for every term the set
\* of DocumentIDs of spimi's postings equals naive's DocumentID list.
C1_BuildersAgree ==
    BothBuilt =>
        LET si == Val(spimiOut).index
            ni == Val(naiveOut).index
        IN  /\ DOMAIN si = DOMAIN ni
            /\ \A t \in DOMAIN si : DocIDsOf(si[t]) = Range(ni[t])

\* both builders ran on a corpus with an empty document and a budget that
\* cuts the corpus short
C1_Witness ==
    /\ BothBuilt
    /\ \E i \in 1..Len(tokensList) : tokensList[i] = <<>>
    /\ Truthy(testCount) /\ Val(testCount) < TotalTokens(tokensList)
    /\ DOMAIN Val(naiveOut).index # {}

\* C2: in every index spimi or naive returns, each term's postings list is
\* strictly increasing by DocumentID (so no DocumentID occurs twice).
C2_PostingsIncreasing ==
    /\ ~IsNone(spimiOut) =>
           \A t \in DOMAIN Val(spimiOut).index :
               StrictlyIncreasing(PostingIDs(Val(spimiOut).index[t]))
    /\ ~IsNone(naiveOut) =>
           \A t \in DOMAIN Val(naiveOut).index :
               StrictlyIncreasing(Val(naiveOut).index[t])

\* a term occurs twice in one document and again in a later one
C2_Witness ==
    /\ BothBuilt
    /\ \E t \in DOMAIN Val(spimiOut).index :
           /\ Len(Val(spimiOut).index[t]) >= 2
           /\ \E i \in 1..Len(Val(spimiOut).index[t]) : Val(spimiOut).index[t][i][2] >= 2
           /\ Len(Val(naiveOut).index[t]) >= 2

\* C3 as stated: with a budget of N the summed term frequency of spimi's
\* index is exactly N, and naive collects exactly N pairs.
C3_Original ==
    ~IsNone(testCount) =>
        /\ ~IsNone(spimiOut) => TotalFrequency(Val(spimiOut).index) = Val(testCount)
        /\ ~IsNone(naiveOut) => Len(Val(naiveOut).F) = Val(testCount)

\* the occurrences a budget lets a builder process: a budget of None or 0
\* is no budget, a larger one is capped by the corpus
Processed(budget, corpus) ==
    IF Truthy(budget) THEN Min(Val(budget), TotalTokens(corpus)) ELSE TotalTokens(corpus)

\* C3 amended: with a budget of N >= 1 over a corpus of T token occurrences
\* the summed term frequency of spimi's index, and the number of pairs naive
\* collects before sorting, are both min(N, T); with a budget of 0 (or none)
\* both are T.
C3_BudgetCapped ==
    /\ ~IsNone(spimiOut) =>
           /\ TotalFrequency(Val(spimiOut).index) = Processed(testCount, tokensList)
           /\ Val(spimiOut).pairCount = Processed(testCount, tokensList)
    /\ ~IsNone(naiveOut) =>
           Len(Val(naiveOut).F) = Processed(testCount, tokensList)

\* a budget that stops both builders in the middle of a document
C3_Witness ==
    /\ BothBuilt
    /\ Truthy(testCount)
    /\ Val(testCount) < TotalTokens(tokensList)
    /\ TotalFrequency(Val(spimiOut).index) = Val(testCount)
    /\ Len(Val(naiveOut).F) = Val(testCount)
    /\ \E i \in 1..Len(tokensList) :
           LET before == TotalTokens(SubSeq(tokensList, 1, i - 1))
           IN  before < Val(testCount) /\ Val(testCount) < before + Len(tokensList[i])

\* ------------------------------------------- conjunction and disjunction
BoolInit ==
    /\ postingsLists \in PostingsListsArgs
    /\ queryTermRanking \in BOOLEAN
    /\ conjOut = None
    /\ disjOut = None
    /\ BuildIdle
    /\ QueryIdle

\* queryTest lines 48, 74: conjunction(postingsLists)
CallConjunction ==
    /\ IsNone(conjOut)
    /\ conjOut' = Some(conjunction(postingsLists))
    /\ UNCHANGED <<postingsLists, queryTermRanking, disjOut, buildVars, queryVars>>

\* queryTest lines 50, 77: disjunction(postingsLists, queryTermRanking)
CallDisjunction ==
    /\ IsNone(disjOut)
    /\ disjOut' = Some(disjunction(postingsLists, queryTermRanking))
    /\ UNCHANGED <<postingsLists, queryTermRanking, conjOut, buildVars, queryVars>>

BoolNext == CallConjunction \/ CallDisjunction

BoolSpec == BoolInit /\ [][BoolNext]_vars

\* ------------------------------- claims on conjunction and disjunction
PresentAt(ls) == {i \in 1..Len(ls) : ~IsNone(ls[i])}

AllPresent(ls) == PresentAt(ls) = 1..Len(ls)

\* the DocumentIDs every list of ls holds, and those some list holds
InAll(ls) == {d \in 1..MaxDocID : \A i \in 1..Len(ls) : d \in Range(Val(ls[i]))}
InSome(ls) == UNION {Range(Val(ls[i])) : i \in PresentAt(ls)}

Orderings(n) == {f \in [1..n -> 1..n] : {f[i] : i \in 1..n} = 1..n}

\* ls with the lists at positions i..j replaced by their conjunction
Grouped(ls, i, j) ==
    SubSeq(ls, 1, i - 1) \o <<conjunction(SubSeq(ls, i, j))>> \o SubSeq(ls, j + 1, Len(ls))

\* the DocumentIDs of what disjunction returned, ranked or not
DisjIDs ==
    IF IsNone(Val(disjOut)) THEN {}
    ELSE IF queryTermRanking
         THEN {Val(Val(disjOut))[k][1] : k \in 1..Len(Val(Val(disjOut)))}
         ELSE Range(Val(Val(disjOut)))

\* C4: for strictly increasing postings lists, every DocumentID conjunction
\* returns is also returned by disjunction of the same lists, and conjunction
\* returns the same set of DocumentIDs for every ordering and every grouping
\* of its input lists.
C4_ConjunctionAlgebra ==
    (~IsNone(conjOut) /\ AllPresent(postingsLists)) =>
        LET ids == Range(Val(Val(conjOut)))
            n == Len(postingsLists)
        IN  /\ ~IsNone(disjOut) => ids \subseteq DisjIDs
            /\ \A f \in Orderings(n) :
                   Range(Val(conjunction([i \in 1..n |-> postingsLists[f[i]]]))) = ids
            /\ \A i \in 1..n : \A j \in i..n :
                   Range(Val(conjunction(Grouped(postingsLists, i, j)))) = ids

\* three lists that overlap pairwise differently, both operations applied
C4_Witness ==
    /\ ~IsNone(conjOut) /\ ~IsNone(disjOut)
    /\ AllPresent(postingsLists)
    /\ Len(postingsLists) = 3
    /\ Val(Val(conjOut)) # <<>>
    /\ Range(Val(Val(conjOut))) # DisjIDs
    /\ Len(Val(postingsLists[1])) > Len(Val(postingsLists[2]))

\* C5: conjunction returns None as soon as one input list is None; otherwise
\* it returns exactly the DocumentIDs present in every input list, in
\* ascending order, also when the loop stops early on an empty intersection.
C5_StrictAnd ==
    ~IsNone(conjOut) =>
        IF AllPresent(postingsLists)
        THEN /\ ~IsNone(Val(conjOut))
             /\ StrictlyIncreasing(Val(Val(conjOut)))
             /\ Range(Val(Val(conjOut))) = InAll(postingsLists)
        ELSE IsNone(Val(conjOut))

\* the loop stops early: the two shortest lists are disjoint, a third,
\* non-empty list is never merged
C5_Witness ==
    /\ ~IsNone(conjOut)
    /\ AllPresent(postingsLists)
    /\ Len(postingsLists) >= 3
    /\ LET s == SortByLen([i \in 1..Len(postingsLists) |-> Val(postingsLists[i])])
       IN  s[1] # <<>> /\ intersect(s[1], s[2]) = <<>> /\ s[3] # <<>>
    /\ Val(conjOut) = Some(<<>>)

\* C6: without query-term ranking disjunction ignores the None lists,
\* returns None when every list is None, and otherwise returns the union of
\* the other lists, each DocumentID once, ascending.
C6_PlainUnion ==
    (~IsNone(disjOut) /\ ~queryTermRanking) =>
        IF PresentAt(postingsLists) = {}
        THEN IsNone(Val(disjOut))
        ELSE /\ ~IsNone(Val(disjOut))
             /\ StrictlyIncreasing(Val(Val(disjOut)))
             /\ Range(Val(Val(disjOut))) = InSome(postingsLists)

\* a None list among lists that share a DocumentID and chain out of order
C6_Witness ==
    /\ ~IsNone(disjOut) /\ ~queryTermRanking
    /\ PresentAt(postingsLists) # {}
    /\ ~AllPresent(postingsLists)
    /\ \E i, j \in PresentAt(postingsLists) :
           /\ i < j
           /\ Range(Val(postingsLists[i])) \cap Range(Val(postingsLists[j])) # {}
           /\ \E d \in Range(Val(postingsLists[i])), e \in Range(Val(postingsLists[j])) : e < d

\* C7: with queryTermRanking and at least one list that is not None, the
\* matchCounts of the returned pairs sum to the summed lengths of the lists
\* that are not None.
C7_MatchCountSum ==
    (~IsNone(disjOut) /\ queryTermRanking /\ PresentAt(postingsLists) # {}) =>
        /\ ~IsNone(Val(disjOut))
        /\ SumSeq([k \in 1..Len(Val(Val(disjOut))) |-> Val(Val(disjOut))[k][2]])
               = SumSeq([k \in 1..Len(validOf(postingsLists)) |-> Len(validOf(postingsLists)[k])])

\* a ranked union in which one document matches two terms and another one
C7_Witness ==
    /\ ~IsNone(disjOut) /\ queryTermRanking
    /\ ~IsNone(Val(disjOut))
    /\ \E k, m \in 1..Len(Val(Val(disjOut))) :
           Val(Val(disjOut))[k][2] >= 2 /\ Val(Val(disjOut))[m][2] = 1

\* --------------------------------------------------------- the query loop
\* subProject2.main lines 402-405: both indexes over the whole collection
QueryInit ==
    /\ tokensList \in QueryCorpora
    /\ testCount = None
    /\ spimiOut = Some(spimiRun(tokensList, testCount))
    /\ naiveOut = Some([index |-> naive(tokensList, testCount),
                        F |-> naivePairs(tokensList, testCount)])
    /\ pc = "query"
    /\ query = <<>> /\ operation = None
    /\ selSpimi = None /\ selNaive = None
    /\ queryTermRanking = FALSE /\ bm25Ranking = FALSE
    /\ notice = "none" /\ naiveResult = None /\ spimiResult = None
    /\ BoolRestIdle

\* lines 385-389: a query line other than 'q'; with one keyword or none the
\* operation is None and getOperation is not called. The values of the last
\* query are overwritten before they are read again.
EnterQuery ==
    /\ pc = "query"
    /\ \E q \in Queries :
          /\ query' = q
          /\ pc' = IF Len(q) > 1 THEN "operation" ELSE "indexes"
    /\ operation' = None
    /\ selSpimi' = None /\ selNaive' = None
    /\ queryTermRanking' = FALSE /\ bm25Ranking' = FALSE
    /\ notice' = "none" /\ naiveResult' = None /\ spimiResult' = None
    /\ UNCHANGED <<buildVars, boolRest>>

\* lines 386-387, 393: the query line 'q' ends the loop and the program;
\* nothing of the last query is read again
Quit ==
    /\ pc = "query"
    /\ pc' = "quit"
    /\ query' = <<>> /\ operation' = None
    /\ selSpimi' = None /\ selNaive' = None
    /\ queryTermRanking' = FALSE /\ bm25Ranking' = FALSE
    /\ notice' = "none" /\ naiveResult' = None /\ spimiResult' = None
    /\ UNCHANGED <<buildVars, boolRest>>

\* getOperation, one answer: accepted, or refused with a message
AnswerOperation ==
    /\ pc = "operation"
    /\ \E answer \in {"AND", "OR", "other"} :
          IF answer \in {"AND", "OR"}
          THEN operation' = Some(answer) /\ pc' = "indexes" /\ notice' = "none"
          ELSE operation' = operation /\ pc' = pc /\ notice' = "invalid operation"
    /\ UNCHANGED <<buildVars, boolVars, query, selSpimi, selNaive, bm25Ranking,
                   naiveResult, spimiResult>>

\* getIndexes, one answer
AnswerIndexes ==
    /\ pc = "indexes"
    /\ \E answer \in {"n", "s", "b", "other"} :
          IF answer \in {"n", "s", "b"}
          THEN /\ selSpimi' = IF answer \in {"s", "b"} THEN Some(Val(spimiOut).index) ELSE None
               /\ selNaive' = IF answer \in {"n", "b"} THEN Some(Val(naiveOut).index) ELSE None
               /\ pc' = "ranking" /\ notice' = "none"
          ELSE /\ UNCHANGED <<selSpimi, selNaive, pc>>
               /\ notice' = "invalid index"
    /\ UNCHANGED <<buildVars, boolVars, query, operation, bm25Ranking,
                   naiveResult, spimiResult>>

\* a getRanking that accepts query term ranking for every operation
getRankingRefusesLax(answer, op, spimiIndex) ==
    IF answer = "b" /\ ~IndexGiven(spimiIndex) THEN "bm25 only for spimi"
    ELSE "none"

\* lines 354-357: the message getRanking refuses an answer with, or "none"
getRankingRefuses(answer, op, spimiIndex) ==
    IF answer = "q" /\ op # Some("OR") THEN "query term ranking only for OR"
    ELSE IF answer = "b" /\ ~IndexGiven(spimiIndex) THEN "bm25 only for spimi"
    ELSE "none"

\* getRanking, one answer
AnswerRanking ==
    /\ pc = "ranking"
    /\ \E answer \in {"q", "b", "n", "other"} :
          IF answer \in {"q", "b", "n"}
          THEN IF getRankingRefuses(answer, operation, selSpimi) # "none"
               THEN /\ notice' = getRankingRefuses(answer, operation, selSpimi)
                    /\ UNCHANGED <<queryTermRanking, bm25Ranking, pc>>
               ELSE /\ queryTermRanking' = (answer = "q")
                    /\ bm25Ranking' = (answer = "b")
                    /\ pc' = "queryTest" /\ notice' = "none"
          ELSE /\ notice' = "invalid ranking"
               /\ UNCHANGED <<queryTermRanking, bm25Ranking, pc>>
    /\ UNCHANGED <<buildVars, boolRest, query, operation, selSpimi, selNaive,
                   naiveResult, spimiResult>>

\* line 392: queryTest, with the answers getK1B accepts when it asks
QueryTest ==
    /\ pc = "queryTest"
    /\ IF Len(query) = 0
       THEN /\ notice' = "invalid query"
            /\ naiveResult' = None /\ spimiResult' = None
            /\ pc' = "query"
       ELSE \E k1t \in K1Tenths, bt \in BTenths :
               /\ naiveResult' = queryTestNaive(query, selNaive, operation, queryTermRanking)
               /\ spimiResult' = queryTestSpimi(query, selSpimi, tokensList, operation,
                                                queryTermRanking, bm25Ranking, k1t, bt)
               /\ pc' = IF spimiResult' = Some(Crashed) THEN "crashed" ELSE "query"
               /\ notice' = "none"
    /\ UNCHANGED <<buildVars, boolVars, query, operation, selSpimi, selNaive, bm25Ranking>>

QueryNext ==
    EnterQuery \/ Quit \/ AnswerOperation \/ AnswerIndexes \/ AnswerRanking \/ QueryTest

QuerySpec == QueryInit /\ [][QueryNext]_vars

\* ------------------------------------------------ claims on the query loop
\* document d of the collection holds term t
Holds(d, t) == d \in 1..Len(tokensList) /\ t \in Range(tokensList[d])

HoldsQueryTerm(d) == \E i \in 1..Len(query) : Holds(d, query[i])

Bm25Returned == ~IsNone(spimiResult) /\ Val(spimiResult).kind = "scored"

\* C8: a document that holds none of the query terms never appears in the
\* list bm25 returns, not even with a score of zero.
C8_Bm25OnlyMatching ==
    Bm25Returned =>
        \A k \in 1..Len(Val(spimiResult).items) : HoldsQueryTerm(Val(spimiResult).items[k][1])

\* bm25 returned a ranking over a collection in which a document with tokens
\* holds none of the query terms
C8_Witness ==
    /\ Bm25Returned
    /\ \E d \in 1..Len(tokensList) : tokensList[d] # <<>> /\ ~HoldsQueryTerm(d)
    /\ Len(Val(spimiResult).items) >= 1

Unranked == ~queryTermRanking /\ ~bm25Ranking

\* C9: an unranked query gives the same ordered sequence of bare DocumentIDs
\* on the spimi index as on the naive index.
C9_SameOnBoth ==
    (~IsNone(naiveResult) /\ ~IsNone(spimiResult) /\ Unranked) =>
        /\ Val(spimiResult).found = Val(naiveResult).found
        /\ Val(spimiResult).found =>
               /\ Val(naiveResult).kind = "ids"
               /\ Val(spimiResult).kind = "ids"
               /\ Val(spimiResult).items = Val(naiveResult).items

\* C10: queryTest is never invoked with queryTermRanking for an AND or a
\* single-term query, nor with bm25Ranking when no spimi index was selected;
\* a refused ranking request leaves the loop at the ranking prompt.
C10_RankingGuard ==
    /\ pc = "queryTest" =>
           /\ queryTermRanking => (operation = Some("OR") /\ Len(query) > 1)
           /\ bm25Ranking => ~IsNone(selSpimi)
    /\ notice \in {"query term ranking only for OR", "bm25 only for spimi"} =>
           pc = "ranking"

\* getRanking has refused query term ranking for a single-term query
C10_Witness ==
    /\ pc = "ranking"
    /\ notice = "query term ranking only for OR"
    /\ Len(query) = 1
    /\ ~IsNone(selSpimi)

\* the score of document d when every posting of a query term for d is
\* scored with the token count of document d itself
OwnLengthScore(d, k1t, bt) ==
    LET index == Val(spimiOut).index
        N == Len(tokensList)
    IN  SumSeq([i \in 1..Len(query) |->
            LET postingsList == getOrEmpty(index, query[i])
                at == {k \in 1..Len(postingsList) : postingsList[k][1] = d}
            IN  IF at = {} THEN 0
                ELSE scoreMilli(idfMilli(N, Len(postingsList)),
                                postingsList[CHOOSE k \in at : TRUE][2],
                                Len(tokensList[d]), N, TotalTokens(tokensList), k1t, bt)])

\* C11: bm25 scores every candidate, the last document d = N included, and
\* uses for a posting of DocumentID d the token count of document d itself.
C11_OwnDocLength ==
    /\ spimiResult # Some(Crashed)
    /\ Bm25Returned =>
           \E k1t \in K1Tenths, bt \in BTenths :
               \A k \in 1..Len(Val(spimiResult).items) :
                   Val(spimiResult).items[k][2]
                       = OwnLengthScore(Val(spimiResult).items[k][1], k1t, bt)

DistinctTermsHeld(d) == Cardinality({t \in Range(query) : Holds(d, t)})

\* output o of queryTest, when it is a query-term ranking, counts for each
\* DocumentID the distinct query terms held and is in descending order
RankedAsClaimed(o) ==
    (~IsNone(o) /\ Val(o).kind = "ranked") =>
        LET items == Val(o).items
        IN  /\ \A k \in 1..Len(items) : items[k][2] = DistinctTermsHeld(items[k][1])
            /\ \A k \in 1..(Len(items) - 1) : items[k][2] >= items[k + 1][2]

\* C12: with an OR query and query term ranking the matchCount of each
\* DocumentID is the number of distinct query terms the document holds, also
\* when the query repeats a term, and the pairs come in descending order of
\* matchCount.
C12_DistinctTermCount == RankedAsClaimed(naiveResult) /\ RankedAsClaimed(spimiResult)

\* the tokens of the corpus before document d
TokensBefore(corpus, d) == TotalTokens(SubSeq(corpus, 1, d - 1))

\* the occurrences of term t in document d among the tokens a builder
\* processes under the budget
OccurrencesProcessed(corpus, budget, t, d) ==
    Cardinality({i \in 1..Len(corpus[d]) :
        corpus[d][i] = t /\ TokensBefore(corpus, d) + i <= Processed(budget, corpus)})

\* C13: in spimi's index term t has the posting (d, f) exactly when t occurs
\* f >= 1 times in the d-th document (empty documents take a DocumentID too)
\* among the tokens processed before the cutoff: one posting per document
\* and term, none split, none merged.
C13_PostingsAreOccurrences ==
    ~IsNone(spimiOut) =>
        LET index == Val(spimiOut).index
        IN  /\ \A t \in DOMAIN index : \A k \in 1..Len(index[t]) :
                   /\ index[t][k][1] \in 1..Len(tokensList)
                   /\ index[t][k][2] >= 1
                   /\ index[t][k][2]
                          = OccurrencesProcessed(tokensList, testCount, t, index[t][k][1])
            /\ \A t \in Terms : \A d \in 1..Len(tokensList) :
                   OccurrencesProcessed(tokensList, testCount, t, d) >= 1 =>
                       /\ t \in DOMAIN index
                       /\ Cardinality({k \in 1..Len(index[t]) : index[t][k][1] = d}) = 1

\* after an empty document a term occurs twice in one document and again in
\* the next, where the budget cuts the build short
C13_Witness ==
    /\ ~IsNone(spimiOut)
    /\ Truthy(testCount) /\ Val(testCount) < TotalTokens(tokensList)
    /\ \E d \in 1..Len(tokensList) : \E t \in DOMAIN Val(spimiOut).index :
           /\ \E e \in 1..(d - 1) : tokensList[e] = <<>>
           /\ <<d, 2>> \in Range(Val(spimiOut).index[t])
           /\ <<d + 1, 1>> \in Range(Val(spimiOut).index[t])
           /\ TokensBefore(tokensList, d + 1) < Val(testCount)
           /\ Val(testCount) < TokensBefore(tokensList, d + 1) + Len(tokensList[d + 1])

====
